---- MODULE Spec2Model ----
(***************************************************************************)
(* A model of src/src/PackageManager.js (Game Closure devkit).             *)
(*                                                                         *)
(* Text is a sequence of one-character strings.  JavaScript string         *)
(* positions are 0-based: the character at JS index p is s[p + 1].         *)
(* Regular expressions are modelled by what the engine computes for them   *)
(* (leftmost match, greedy and lazy quantifiers with backtracking).        *)
(*                                                                         *)
(* Three groups of state: the script rewriting pass (sanitizeCode,         *)
(* unsanitizeCode, walkScript, rewriteScript), the import scanner          *)
(* (parseImports and the module-level importRegex), and the manifest       *)
(* (load paths, populateManifest, saveManifest and the file writes in      *)
(* flight).  Each group has its own specification.                         *)
(***************************************************************************)
EXTENDS Integers, Sequences, FiniteSets, TLC

VARIABLES
    \* ---- script rewriting pass
    src,          \* the text handed to exports.sanitizeCode
    masked,       \* what sanitizeCode returned (None before the call)
    restored,     \* what unsanitizeCode returned for `masked` (None before)
    file,         \* content of the script file on disk
    wpc,          \* walkScript: "idle", "reading" (fs.readFile in flight), "done"
    rewriting,    \* TRUE when the walk was started by rewriteScript
    orig,         \* the code fs.readFile delivered to the callback
    failed,       \* TRUE when falafel threw
    emitted,      \* payload of the 'end' event
    \* ---- import scanner
    callCode,     \* argument `code` of the last parseImports call
    callRel,      \* argument `rel` of the last parseImports call
    callStmt,     \* the statement `code` was written from (see Render)
    called,       \* TRUE once parseImports has been called
    imports,      \* records returned by the last call (<<>> when it threw)
    threw,        \* TRUE when the last call ended with an exception
    lastIndex,    \* importRegex.lastIndex (module-level state)
    \* ---- manifest
    disk,         \* parsed content of manifest.json, or BadJSON
    manifest,     \* this.manifest (NoManifest before a load)
    pending,      \* fs.writeFile calls in flight: set of [id, data]
    reading,      \* TRUE while readManifest's fs.readFile is in flight
    issued,       \* number of saveManifest writes issued so far
    landed,       \* ids of the fs.writeFile writes that have completed
    lastLanded,   \* the last write that reached manifest.json: [id, data],
                  \* id 0 for a synchronous write (NoWrite before any)
    loadReport,   \* what the last load reported to its caller (NoReport before)
    lastOp        \* the last call that replaced this.manifest (NoOp before)

scriptVars == <<src, masked, restored, file, wpc, rewriting, orig, failed, emitted>>
importVars == <<callCode, callRel, callStmt, called, imports, threw, lastIndex>>
manifestVars == <<disk, manifest, pending, reading, issued, landed, lastLanded,
                  loadReport, lastOp>>
vars == <<scriptVars, importVars, manifestVars>>

(***************************************************************************)
(* Bounds of the model.                                                    *)
(***************************************************************************)
MaxLines == 2        \* lines of a script text
MaxDots == 3         \* leading dots of an import path
MaxSegs == 3         \* segments of an import path
MaxBaseSegs == 3     \* segments of a base package path
MaxWrites == 2       \* saveManifest / populateManifest writes issued in a run
MaxUUIDs == 1        \* distinct identifiers createUUID may return

(***************************************************************************)
(* Characters and strings.                                                 *)
(***************************************************************************)
None == <<"<none>">>
Undefined == <<"<undefined>">>

\* \s restricted to the characters of the model's alphabet
IsSpace(c) == c \in {" ", "\t", "\n"}
\* [ \t]
IsBlank(c) == c \in {" ", "\t"}
\* LineTerminator: what `.` does not match and what ^ and $ see under /m
IsLineTerminator(c) == c = "\n"
\* \w : every character of the alphabet that is a letter
IsWordChar(c) == c \notin {" ", "\t", "\n", "#", "/", ".", ";", "=", "<"}
\* canonical case of a letter under the /i flag
LowerCase(c) ==
    CASE c = "I" -> "i"
      [] c = "F" -> "f"
      [] c = "C" -> "c"
      [] c = "D" -> "d"
      [] OTHER -> c

kwImport == <<"i", "m", "p", "o", "r", "t">>
kwFrom == <<"f", "r", "o", "m">>
Keywords == {kwImport, kwFrom}
Slashes == <<"/", "/">>

Min(S) == CHOOSE x \in S : \A y \in S : x <= y
Max(S) == CHOOSE x \in S : \A y \in S : x >= y

\* s, from JS index p on
From(s, p) == SubSeq(s, p + 1, Len(s))
\* w occurs in s at JS index p
HasAt(s, p, w) ==
    /\ p + Len(w) <= Len(s)
    /\ \A j \in 1..Len(w) : s[p + j] = w[j]
\* the same, ignoring case
HasAtNoCase(s, p, w) ==
    /\ p + Len(w) <= Len(s)
    /\ \A j \in 1..Len(w) : LowerCase(s[p + j]) = w[j]
IsSemi(c) == c = ";"
InClass(c, class) ==
    CASE class = "space" -> IsSpace(c)
      [] class = "blank" -> IsBlank(c)
      [] class = "semi" -> IsSemi(c)
\* length of the longest run of characters of a class from JS index p
RECURSIVE RunLen(_, _, _)
RunLen(s, p, class) ==
    IF p < Len(s) /\ InClass(s[p + 1], class)
    THEN 1 + RunLen(s, p + 1, class) ELSE 0

RECURSIVE SplitLines(_)
SplitLines(s) ==
    IF \A i \in 1..Len(s) : ~IsLineTerminator(s[i])
    THEN <<s>>
    ELSE LET i == Min({j \in 1..Len(s) : IsLineTerminator(s[j])})
         IN  <<SubSeq(s, 1, i - 1)>> \o SplitLines(SubSeq(s, i + 1, Len(s)))

RECURSIVE JoinLines(_)
JoinLines(ls) ==
    IF Len(ls) = 0 THEN <<>>
    ELSE IF Len(ls) = 1 THEN ls[1]
    ELSE ls[1] \o <<"\n">> \o JoinLines(Tail(ls))

(***************************************************************************)
(* sanitizeCode / unsanitizeCode                                           *)
(***************************************************************************)
\* (import|from)\b under /i at JS index p: the keyword, then a word boundary
KeywordAt(s, p) ==
    \E kw \in Keywords :
        /\ HasAtNoCase(s, p, kw)
        /\ \/ p + Len(kw) = Len(s)
           \/ ~IsWordChar(s[p + Len(kw) + 1])

\* /^#/ : no g, no m flag, so ^ is the start of the text only
MaskDirective(code) ==
    IF Len(code) >= 1 /\ code[1] = "#" THEN Slashes \o code ELSE code

\* one line against /^([ \t]*(\/\/)?(import|from)\b.*)$/i
MaskLineMatches(line) ==
    LET b == RunLen(line, 0, "blank")
        k == IF HasAt(line, b, Slashes) THEN b + 2 ELSE b
    IN  KeywordAt(line, k)

\* .replace(/^([ \t]*(\/\/)?(import|from)\b.*)$/img, '//$1'): under /m and /g
\* every line is tried once, and a match runs to the end of its line
MaskImports(code) ==
    LET ls == SplitLines(code)
    IN  JoinLines([i \in 1..Len(ls) |->
            IF MaskLineMatches(ls[i]) THEN Slashes \o ls[i] ELSE ls[i]])

sanitizeCode(code) == MaskImports(MaskDirective(code))

\* /^\/\/#/ : the start of the text only
UnmaskDirective(code) ==
    IF HasAt(code, 0, <<"/", "/", "#">>) THEN From(code, 2) ELSE code

\* one line against /^\/\/([ \t]*(import|from)\b.*)$/i
UnmaskLineMatches(line) ==
    /\ HasAt(line, 0, Slashes)
    /\ KeywordAt(line, 2 + RunLen(line, 2, "blank"))

UnmaskImports(code) ==
    LET ls == SplitLines(code)
    IN  JoinLines([i \in 1..Len(ls) |->
            IF UnmaskLineMatches(ls[i]) THEN From(ls[i], 2) ELSE ls[i]])

unsanitizeCode(code) == UnmaskImports(UnmaskDirective(code))

(***************************************************************************)
(* parseImports                                                            *)
(***************************************************************************)
NumberRel == <<"<number>">>     \* a base path that is a truthy non-string
Dot == <<".">>
strUndefined == <<"u", "n", "d", "e", "f", "i", "n", "e", "d">>

\* String(v): what `+` concatenates for v
ToStr(v) == IF v = Undefined THEN strUndefined ELSE v
\* !v for a string or undefined
Falsy(v) == v = Undefined \/ v = <<>>

\* ^ under /m at JS index p
AtLineStart(s, p) == p = 0 \/ IsLineTerminator(s[p])
\* $ under /m at JS index p
AtLineEnd(s, p) == p = Len(s) \/ IsLineTerminator(s[p + 1])

\* (variant: the terminator is required, ;+ for ;*)
TailWidthsStrict(s, e) ==
    {k \in 0..RunLen(s, e, "space") :
        /\ RunLen(s, e + k, "semi") >= 1
        /\ AtLineEnd(s, e + k + RunLen(s, e + k, "semi"))}
\* the tail \s*;*$ of importRegex tried at JS index e: the greedy \s* gives
\* back one character at a time, and ;* must run up to a line end
TailWidths(s, e) ==
    {k \in 0..RunLen(s, e, "space") :
        AtLineEnd(s, e + k + RunLen(s, e + k, "semi"))}
\* the lazy (.*?) from JS index e: it grows by one character (no line
\* terminator) until the tail matches; -1 when it never does
RECURSIVE BodyEnd(_, _)
BodyEnd(s, e) ==
    IF TailWidths(s, e) # {} THEN e
    ELSE IF e < Len(s) /\ ~IsLineTerminator(s[e + 1]) THEN BodyEnd(s, e + 1)
    ELSE -1
\* importRegex tried at JS index p: /^(\s*)(import|from)\s+(.*?)\s*;*$/gm
\* yields the keyword, the body m[3] and the index after the match
MatchAt(s, p) ==
    LET a == p + RunLen(s, p, "space")
        kws == {kw \in Keywords : HasAt(s, a, kw)}
    IN  IF ~AtLineStart(s, p) \/ kws = {} THEN [ok |-> FALSE]
        ELSE
        LET kw == CHOOSE k \in kws : TRUE
            q == a + Len(kw)
            w == RunLen(s, q, "space")
            r == q + w
        IN  IF w = 0 \/ BodyEnd(s, r) < 0 THEN [ok |-> FALSE]
            ELSE LET e == BodyEnd(s, r)
                     k == Max(TailWidths(s, e))
                 IN  [ok |-> TRUE, type |-> kw,
                      body |-> SubSeq(s, r + 1, e),
                      end |-> e + k + RunLen(s, e + k, "semi")]

\* importRegex.exec(code): the leftmost match at or after lastIndex; a failed
\* exec sets lastIndex to 0
Exec(s, li) ==
    LET ps == {p \in li..Len(s) : AtLineStart(s, p) /\ MatchAt(s, p).ok}
    IN  IF ps = {} THEN [ok |-> FALSE, end |-> 0] ELSE MatchAt(s, Min(ps))

\* m[3].split(/\s+/)
RECURSIVE SplitSpaces(_)
SplitSpaces(s) ==
    IF \A i \in 1..Len(s) : ~IsSpace(s[i])
    THEN <<s>>
    ELSE LET i == Min({j \in 1..Len(s) : IsSpace(s[j])})
             n == RunLen(s, i - 1, "space")
         IN  <<SubSeq(s, 1, i - 1)>> \o SplitSpaces(From(s, i - 1 + n))

\* rest[i] (JS index), undefined past the end
Item(rest, i) == IF i + 1 <= Len(rest) THEN rest[i + 1] ELSE Undefined

\* (variant: the dot before the segment goes too, /\.?[^.]+$/)
StripLastSegmentAndDot(s) ==
    LET ds == {i \in 1..Len(s) : s[i] = "."}
    IN  IF s = <<>> THEN s
        ELSE IF ds = {} THEN <<>>
        ELSE SubSeq(s, 1, Max(ds) - 1)
\* rel2.replace(/[^.]+\.?$/, ''): the leftmost place from which the text is
\* a run of non-dots, then at most one dot, then the end
StripLastSegment(s) ==
    LET is == {i \in 1..Len(s) :
                  \E n \in 1..(Len(s) - i + 1) :
                      /\ \A j \in i..(i + n - 1) : s[j] # "."
                      /\ \/ i + n - 1 = Len(s)
                         \/ i + n = Len(s) /\ s[Len(s)] = "."}
    IN  IF is = {} THEN s ELSE SubSeq(s, 1, Min(is) - 1)

RECURSIVE ResolveLoop(_, _)
ResolveLoop(rel2, cls) ==
    IF Len(cls) >= 1 /\ cls[1] = "."
    THEN ResolveLoop(StripLastSegment(rel2), Tail(cls))
    ELSE rel2 \o cls

\* resolve(cls) of parseImports, for the base path rel; [threw |-> TRUE] is
\* the TypeError of rel2.replace on a base that is no string
resolve(rel, cls) ==
    IF Falsy(rel) \/ Len(cls) = 0 \/ cls[1] # "."
    THEN [threw |-> FALSE, value |-> cls]
    ELSE IF rel = NumberRel
    THEN [threw |-> TRUE, value |-> <<>>]
    ELSE [threw |-> FALSE, value |-> ResolveLoop(rel, cls)]

\* rest[0].replace(/((^\.)|\.)[^.]+$/, '$2')
PackageOf(p) ==
    LET is == {i \in 1..(Len(p) - 1) :
                  p[i] = "." /\ \A j \in (i + 1)..Len(p) : p[j] # "."}
    IN  IF is = {} THEN p
        ELSE SubSeq(p, 1, Min(is) - 1) \o (IF Min(is) = 1 THEN Dot ELSE <<>>)

\* rest[0].replace(/^(.*)\./, '')
ClassOf(p) ==
    LET is == {i \in 1..Len(p) : p[i] = "."}
    IN  IF is = {} THEN p ELSE SubSeq(p, Max(is) + 1, Len(p))

\* .replace(/^\./, '')
StripLeadingDot(p) == IF Len(p) >= 1 /\ p[1] = "." THEN Tail(p) ELSE p

\* (variant: the alias defaults to the class name)
ImportAliasFromClass(rest) ==
    StripLeadingDot(IF Falsy(Item(rest, 2)) THEN ClassOf(Item(rest, 0))
                    ELSE Item(rest, 2))
\* alias of an 'import' record: (rest[2] || rest[0]).replace(/^\./, '')
ImportAlias(rest) ==
    StripLeadingDot(IF Falsy(Item(rest, 2)) THEN Item(rest, 0) ELSE Item(rest, 2))

\* the record pushed for one match
MakeRecord(m, rel) ==
    LET rest == SplitSpaces(m.body)
    IN  IF m.type = kwImport
        THEN LET pk == resolve(rel, PackageOf(Item(rest, 0)))
                 rs == resolve(rel, Item(rest, 0))
             IN  [threw |-> pk.threw \/ rs.threw,
                  rec |-> [type |-> m.type,
                           package |-> pk.value,
                           class |-> ClassOf(Item(rest, 0)),
                           alias |-> ImportAlias(rest),
                           resolved |-> rs.value]]
        ELSE LET pk == resolve(rel, Item(rest, 0))
                 rs == resolve(rel,
                         (IF Falsy(Item(rest, 0)) THEN <<>> ELSE Item(rest, 0) \o Dot)
                             \o ToStr(Item(rest, 2)))
             IN  [threw |-> pk.threw \/ rs.threw,
                  rec |-> [type |-> m.type,
                           package |-> pk.value,
                           class |-> Item(rest, 2),
                           alias |-> Item(rest, 2),
                           resolved |-> rs.value]]

\* the while loop of parseImports from scanner position li; [threw |-> TRUE]
\* leaves the loop with lastIndex where the last exec put it
RECURSIVE Scan(_, _, _, _)
Scan(code, rel, li, acc) ==
    LET m == Exec(code, li)
    IN  IF ~m.ok THEN [imports |-> acc, lastIndex |-> m.end, threw |-> FALSE]
        ELSE LET r == MakeRecord(m, rel)
             IN  IF r.threw
                 THEN [imports |-> <<>>, lastIndex |-> m.end, threw |-> TRUE]
                 ELSE Scan(code, rel, m.end, Append(acc, r.rec))

\* a path: k leading dots, then the segments joined by dots
RECURSIVE JoinDots(_)
JoinDots(segs) ==
    IF Len(segs) = 0 THEN <<>>
    ELSE IF Len(segs) = 1 THEN segs[1]
    ELSE segs[1] \o Dot \o JoinDots(Tail(segs))
Dots(k) == [i \in 1..k |-> "."]
PathStr(k, segs) == Dots(k) \o JoinDots(segs)

\* the text of a statement st, as a caller of parseImports writes it:
\*   import <path>[ as D][;]        from <path> import N[;]
\* alone, or followed by a second line
FollowStmt == kwImport \o <<" ", "q", ".", "R", ";">>
FollowOther == <<"x", " ", "=", " ", "1", ";">>
Render(st) ==
    LET path == PathStr(st.dots, st.segs)
        line == IF st.type = "import"
                THEN kwImport \o <<" ">> \o path
                       \o (IF st.alias THEN <<" ", "a", "s", " ", "D">> ELSE <<>>)
                ELSE kwFrom \o <<" ">> \o path \o <<" ">> \o kwImport \o <<" ", "N">>
        semi == IF st.term THEN <<";">> ELSE <<>>
    IN  line \o semi \o
        (CASE st.follow = "none" -> <<>>
           [] st.follow = "stmt" -> <<"\n">> \o FollowStmt
           [] st.follow = "other" -> <<"\n">> \o FollowOther)

\* exports.parseImports(code, rel), the module being in the state lastIndex;
\* st is the statement the text `code` holds
parseImports(st, rel) ==
    LET code == Render(st)
        r == Scan(code, rel, lastIndex, <<>>)
    IN  /\ callCode' = code
        /\ callRel' = rel
        /\ callStmt' = st
        /\ called' = TRUE
        /\ imports' = r.imports
        /\ threw' = r.threw
        /\ lastIndex' = IF r.threw THEN r.lastIndex ELSE 0
        /\ UNCHANGED <<scriptVars, manifestVars>>

(***************************************************************************)
(* Script rewriting pass: walkScript and rewriteScript                     *)
(***************************************************************************)
\* lines a script text is made of
ScriptLines ==
    { <<"#", "x">>,                                 \* a directive
      kwImport \o <<" ", "a">>,                      \* an import statement
      <<" ">> \o kwFrom \o <<" ", "a">>,             \* an indented from statement
      Slashes \o kwImport \o <<" ", "a">>,           \* an import already commented out
      Slashes \o <<" ">> \o kwFrom \o <<" ", "a">>,  \* a comment that reads '// from a'
      Slashes \o <<"#", "x">>,                       \* a comment that reads '//#x'
      <<"I", "m", "p", "o", "r", "t", " ", "a">>,    \* the keyword in another case
      kwImport \o <<"x">>,                           \* an identifier, not the keyword
      <<"y", "=", "a">> }                            \* any other code

ScriptTexts ==
    UNION {{JoinLines(ls) : ls \in [1..n -> ScriptLines]} : n \in 1..MaxLines}

NoStmt == [type |-> "none"]
ImportsIdle ==
    /\ callCode = <<>> /\ callRel = Undefined /\ callStmt = NoStmt
    /\ called = FALSE
    /\ imports = <<>> /\ threw = FALSE /\ lastIndex = 0

NoManifest == [none |-> TRUE]
NoReport == [path |-> "none", ok |-> FALSE, healed |-> FALSE,
             memAppID |-> <<>>, diskAppID |-> <<>>]
NoWrite == [id |-> 0, data |-> NoManifest]
NoOp == [op |-> "none", id |-> 0, before |-> NoManifest, opts |-> <<>>]
ManifestIdle ==
    /\ disk = NoManifest /\ manifest = NoManifest /\ pending = {}
    /\ reading = FALSE /\ issued = 0 /\ landed = {} /\ lastLanded = NoWrite
    /\ loadReport = NoReport /\ lastOp = NoOp

ScriptIdle ==
    /\ src = <<>> /\ masked = None /\ restored = None /\ file = <<>>
    /\ wpc = "idle" /\ rewriting = FALSE /\ orig = None /\ failed = FALSE
    /\ emitted = None

ScriptInit ==
    /\ src \in ScriptTexts
    /\ masked = None /\ restored = None
    /\ file = src
    /\ wpc = "idle" /\ rewriting = FALSE /\ orig = None /\ failed = FALSE
    /\ emitted = None
    /\ ImportsIdle /\ ManifestIdle

\* exports.sanitizeCode(src)
SanitizeCall ==
    /\ masked' = sanitizeCode(src)
    /\ restored' = None
    /\ UNCHANGED <<src, file, wpc, rewriting, orig, failed, emitted>>
    /\ UNCHANGED <<importVars, manifestVars>>

\* exports.unsanitizeCode on what sanitizeCode returned
UnsanitizeCall ==
    /\ masked # None
    /\ restored' = unsanitizeCode(masked)
    /\ UNCHANGED <<src, masked, file, wpc, rewriting, orig, failed, emitted>>
    /\ UNCHANGED <<importVars, manifestVars>>

\* walkScript(path): fs.readFile is issued, the emitter is returned
WalkScript ==
    /\ wpc # "reading"
    /\ wpc' = "reading"
    /\ rewriting' = FALSE
    /\ UNCHANGED <<src, masked, restored, file, orig, failed, emitted>>
    /\ UNCHANGED <<importVars, manifestVars>>

\* rewriteScript(path): walkScript plus an 'end' listener that writes the file
RewriteScript ==
    /\ wpc # "reading"
    /\ wpc' = "reading"
    /\ rewriting' = TRUE
    /\ UNCHANGED <<src, masked, restored, file, orig, failed, emitted>>
    /\ UNCHANGED <<importVars, manifestVars>>

\* the fs.readFile callback of walkScript: falafel returns (the node callback
\* updates nothing, so the regenerated source is its input) or throws, then
\* 'end' is emitted and rewriteScript's listener writes the file
ReadCallback(engineThrows) ==
    LET out == IF engineThrows THEN file ELSE sanitizeCode(file)
        end == unsanitizeCode(out)
    IN  /\ wpc = "reading"
        /\ orig' = file
        /\ failed' = engineThrows
        /\ emitted' = end
        /\ file' = IF rewriting THEN end ELSE file
        /\ wpc' = "done"
        /\ UNCHANGED <<src, masked, restored, rewriting>>
        /\ UNCHANGED <<importVars, manifestVars>>

ParseSucceeds == ReadCallback(FALSE)
ParseFails == ReadCallback(TRUE)

ScriptNext ==
    \/ SanitizeCall
    \/ UnsanitizeCall
    \/ WalkScript
    \/ RewriteScript
    \/ ParseSucceeds
    \/ ParseFails

SpecScript == ScriptInit /\ [][ScriptNext]_vars

(***************************************************************************)
(* Import scanner: statements, base paths and the two ways of calling      *)
(***************************************************************************)
SegNames == {<<"a">>, <<"F", "o", "o">>}
SegSeqs == UNION {[1..n -> SegNames] : n \in 1..MaxSegs}

\* the i-th segment of a base package path
BaseSeg(i) == IF i % 2 = 1 THEN <<"p">> ELSE <<"q", "q">>
BaseSegs(n) == [i \in 1..n |-> BaseSeg(i)]
\* base package paths: '', 'p', 'p.qq', 'p.qq.p', ... and an absent one
BasePaths == {JoinDots(BaseSegs(n)) : n \in 0..MaxBaseSegs} \cup {Undefined}

Stmts ==
    [type : {"import"}, dots : 0..MaxDots, segs : SegSeqs, alias : BOOLEAN,
     term : BOOLEAN, follow : {"none", "stmt", "other"}]
    \cup
    [type : {"from"}, dots : 0..MaxDots, segs : SegSeqs, alias : {FALSE},
     term : BOOLEAN, follow : {"none", "stmt", "other"}]

\* one call of parseImports on a freshly loaded module
ParseInit ==
    /\ callStmt \in Stmts
    /\ callRel \in BasePaths
    /\ callCode = Render(callStmt)
    /\ called = FALSE /\ imports = <<>> /\ threw = FALSE /\ lastIndex = 0
    /\ ScriptIdle /\ ManifestIdle

ParseCall ==
    /\ ~called
    /\ parseImports(callStmt, callRel)

ParseNext == ParseCall

SpecParse == ParseInit /\ [][ParseNext]_vars

\* any sequence of calls on one loaded module
RestartStmts ==
    [type : {"import", "from"}, dots : {0, 1}, segs : {<<(<<"a">>)>>, <<(<<"a">>), (<<"F", "o", "o">>)>>},
     alias : {FALSE}, term : BOOLEAN, follow : {"none", "stmt"}]
RestartRels == {Undefined, <<>>, JoinDots(BaseSegs(2)), NumberRel}

RestartInit == ImportsIdle /\ ScriptIdle /\ ManifestIdle

RestartCall == \E st \in RestartStmts, rel \in RestartRels : parseImports(st, rel)

RestartNext == RestartCall

SpecRestart == RestartInit /\ [][RestartNext]_vars

(***************************************************************************)
(* Properties of the script rewriting pass (SpecScript)                    *)
(***************************************************************************)
StartsWithHash(line) == Len(line) >= 1 /\ line[1] = "#"

\* C1: round trip: unsanitizeCode(sanitizeCode(T)) equals T for every text T,
\* lines that already start with '//import', '// from' or '//#' included.
C1_RoundTrip == restored # None => restored = src

\* C10: sanitizeCode prefixes every line that begins with '#' with '//',
\* whichever line it is on, and no line of its output begins with '#'.
C10_EveryDirectiveMasked ==
    masked # None =>
        LET ls == SplitLines(src)
            ms == SplitLines(masked)
        IN  /\ Len(ms) = Len(ls)
            /\ \A i \in 1..Len(ls) :
                   StartsWithHash(ls[i]) => ms[i] = Slashes \o ls[i]
            /\ \A i \in 1..Len(ms) : ~StartsWithHash(ms[i])

\* C8: when the AST engine fails, walkScript emits 'end' with exactly the
\* file's content C and rewriteScript writes exactly C back, also when C has
\* lines starting with '//import', '// from' or '//#'.
C8_FailedParseIsNoOp ==
    (wpc = "done" /\ failed) =>
        /\ emitted = orig
        /\ rewriting => file = orig

(***************************************************************************)
(* Properties of one parseImports call (SpecParse)                         *)
(***************************************************************************)
strFoo == <<"F", "o", "o">>
\* number of segments of the base path of the call
BaseDepth(rel) ==
    IF rel = Undefined THEN 0
    ELSE CHOOSE n \in 0..MaxBaseSegs : JoinDots(BaseSegs(n)) = rel
\* the resolution the specification describes, on segments: one trailing
\* segment of the base dropped per leading dot, then the path's segments
SegmentResolve(k, segs, rel) ==
    IF k = 0 THEN JoinDots(segs)
    ELSE LET n == BaseDepth(rel)
             keep == IF n > k THEN n - k ELSE 0
         IN  JoinDots(BaseSegs(keep) \o segs)
\* what resolve returned for the path of the statement: the record's
\* `resolved` for an import, its `package` for a from
ResolvedPath ==
    IF callStmt.type = "import" THEN imports[1].resolved ELSE imports[1].package

IsPlainImport(st) ==
    /\ st.type = "import" /\ ~st.alias /\ st.term /\ st.follow = "none"
    /\ st.dots = 0 /\ Len(st.segs) >= 2
Front(q) == SubSeq(q, 1, Len(q) - 1)
Last(q) == q[Len(q)]

IsFollowRecord(r) ==
    /\ r.type = kwImport /\ r.package = <<"q">> /\ r.class = <<"R">>
    /\ r.resolved = <<"q", ".", "R">>

C5_Restartable ==
    called =>
        /\ lastIndex = 0
        /\ ~threw => imports = Scan(callCode, callRel, 0, <<>>).imports

(***************************************************************************)
(* Manifest: values, load paths, populateManifest, saveManifest            *)
(***************************************************************************)
\* JSON values; a manifest is a function from its keys to values
Str(x) == [type |-> "string", val |-> <<x, 0>>]
Num(x) == [type |-> "number", val |-> <<x, 0>>]
Obj(x) == [type |-> "object", val |-> <<x, 0>>]
UUID(i) == [type |-> "string", val |-> <<"uuid", i>>]
Absent == [type |-> "undefined", val |-> <<"", 0>>]
BadJSON == [bad |-> TRUE]          \* a manifest.json that is not valid JSON
EmptyObject == [k \in {} |-> Absent]

\* createUUID(): a random 36-character identifier, any of the pool
UUIDPool == {UUID(i) : i \in 1..MaxUUIDs}

Get(m, k) == IF k \in DOMAIN m THEN m[k] ELSE Absent
\* !appID || typeof appID !== 'string' || appID.length < 1
AppIDInvalid(m) ==
    LET v == Get(m, "appID")
    IN  \/ v \in {Absent, Str(""), Num("0")}
        \/ v.type # "string"

\* JSON.parse(JSON.stringify(obj)): keys whose value is undefined are dropped
clone(obj) == [k \in {x \in DOMAIN obj : obj[x] # Absent} |-> obj[k]]
\* JSON.stringify(json, null, '\t'), as the value JSON.parse gives back for it
serializeConfig(json) == clone(json)

\* (variant: the keys of a win)
augmentKeepFirst(a, b) ==
    [k \in DOMAIN a \cup DOMAIN b |-> IF k \in DOMAIN a THEN a[k] ELSE b[k]]
\* augment(a, b): every own key of b is copied onto a
augment(a, b) ==
    [k \in DOMAIN a \cup DOMAIN b |-> IF k \in DOMAIN b THEN b[k] ELSE a[k]]

\* manifest.json as found in a package directory
DiskManifests ==
    { EmptyObject,
      [appID |-> Str(""), title |-> Str("X")],
      [appID |-> Num("7")],
      [appID |-> Str("id0"), title |-> Str("X"), shortName |-> Str("s")],
      BadJSON }
\* what callers hand to saveManifest / saveManifestSync
SaveData ==
    { [appID |-> Str("id0"), title |-> Str("X")],
      [appID |-> Str("id0"), title |-> Str("Y")] }
\* what callers hand to populateManifest; NotAnObject stands for a non-object
NotAnObject == [notAnObject |-> TRUE]
PopulateOpts ==
    { NotAnObject, [title |-> Str("Y"), shortName |-> Str("t")] }

ManifestInit ==
    /\ disk \in DiskManifests
    /\ manifest = NoManifest /\ pending = {} /\ reading = FALSE
    /\ issued = 0 /\ landed = {} /\ lastLanded = NoWrite
    /\ loadReport = NoReport /\ lastOp = NoOp
    /\ ScriptIdle /\ ImportsIdle

Report(path, ok, healed, mem, dsk) ==
    [path |-> path, ok |-> ok, healed |-> healed,
     memAppID |-> IF ok THEN Get(mem, "appID") ELSE Absent,
     diskAppID |-> IF ok THEN Get(dsk, "appID") ELSE Absent]
\* lastOp for a call; `before` and `opts` are kept for populateManifest only
ReplacedBy(op) == [op |-> op, id |-> 0, before |-> NoManifest, opts |-> <<>>]
Populating(opts) == [op |-> "populate", id |-> 0, before |-> manifest, opts |-> opts]

\* exports.load(path): new GCPackage(path) runs init, which reads and parses
\* manifest.json synchronously and throws on invalid JSON
LoadSync ==
    /\ IF disk = BadJSON
       THEN /\ loadReport' = Report("sync", FALSE, FALSE, manifest, disk)
            /\ UNCHANGED <<manifest, lastOp>>
       ELSE /\ manifest' = disk
            /\ loadReport' = Report("sync", TRUE, AppIDInvalid(disk), disk, disk)
            /\ lastOp' = ReplacedBy("load")
    /\ UNCHANGED <<disk, pending, reading, issued, landed, lastLanded>>
    /\ UNCHANGED <<scriptVars, importVars>>

\* exports.getProject(path, cb) / load(root, cb): initPaths succeeds and
\* readManifest issues fs.readFile
LoadAsync ==
    /\ ~reading
    /\ reading' = TRUE
    /\ UNCHANGED <<disk, manifest, pending, issued, landed, lastLanded,
                    loadReport, lastOp>>
    /\ UNCHANGED <<scriptVars, importVars>>

\* the fs.readFile callback of readManifest, createUUID returning uuid
ReadManifestDone(uuid) ==
    /\ reading
    /\ reading' = FALSE
    /\ IF disk = BadJSON
       THEN /\ loadReport' = Report("async", FALSE, FALSE, manifest, disk)
            /\ UNCHANGED <<disk, manifest, lastLanded, lastOp>>
       ELSE IF AppIDInvalid(disk)
       THEN LET healed == [k \in DOMAIN disk \cup {"appID"} |->
                              IF k = "appID" THEN uuid ELSE disk[k]]
            IN  /\ manifest' = healed
                /\ disk' = serializeConfig(healed)
                /\ lastLanded' = [id |-> 0, data |-> serializeConfig(healed)]
                /\ loadReport' = Report("async", TRUE, TRUE, healed, serializeConfig(healed))
                /\ lastOp' = ReplacedBy("load")
       ELSE /\ manifest' = disk
            /\ loadReport' = Report("async", TRUE, FALSE, disk, disk)
            /\ lastOp' = ReplacedBy("load")
            /\ UNCHANGED <<disk, lastLanded>>
    /\ UNCHANGED <<pending, issued, landed>>
    /\ UNCHANGED <<scriptVars, importVars>>

ReadManifestCallback == \E uuid \in UUIDPool : ReadManifestDone(uuid)

\* (variant: memory is replaced only once the write has completed)
SaveManifestDeferred(data, op) ==
    /\ issued < MaxWrites
    /\ issued' = issued + 1
    /\ pending' = pending \cup {[id |-> issued + 1, data |-> data]}
    /\ lastOp' = [op EXCEPT !.id = issued + 1]
    /\ UNCHANGED <<manifest, disk, reading, landed, lastLanded, loadReport>>
    /\ UNCHANGED <<scriptVars, importVars>>
\* saveManifest(data, cb): memory is replaced, then fs.writeFile is issued;
\* op says which call it is made by
SaveManifest(data, op) ==
    /\ issued < MaxWrites
    /\ issued' = issued + 1
    /\ manifest' = data
    /\ pending' = pending \cup {[id |-> issued + 1, data |-> serializeConfig(data)]}
    /\ lastOp' = [op EXCEPT !.id = issued + 1]
    /\ UNCHANGED <<disk, reading, landed, lastLanded, loadReport>>
    /\ UNCHANGED <<scriptVars, importVars>>

SaveManifestCall ==
    /\ manifest # NoManifest
    /\ \E data \in SaveData : SaveManifest(data, ReplacedBy("save"))

\* saveManifestSync(data)
SaveManifestSync ==
    /\ manifest # NoManifest
    /\ \E data \in SaveData :
        /\ manifest' = data
        /\ disk' = serializeConfig(data)
        /\ lastLanded' = [id |-> 0, data |-> serializeConfig(data)]
        /\ lastOp' = ReplacedBy("saveSync")
    /\ UNCHANGED <<pending, reading, issued, landed, loadReport>>
    /\ UNCHANGED <<scriptVars, importVars>>

DefaultStudio == Obj("studio")
DefaultOrientations == Obj("orientations")
\* the skeleton populateManifest builds from opts, createUUID returning uuid
Defaults(opts, uuid) ==
    LET o == IF opts = NotAnObject THEN EmptyObject ELSE opts
    IN  [appID |-> uuid,
         shortName |-> IF Get(o, "shortName") = Absent THEN Str("") ELSE o["shortName"],
         title |-> IF Get(o, "title") = Absent THEN Str("") ELSE o["title"],
         studio |-> DefaultStudio,
         supportedOrientations |-> DefaultOrientations]

\* populateManifest(opts, cb)
PopulateManifest ==
    /\ manifest # NoManifest
    /\ \E opts \in PopulateOpts, uuid \in UUIDPool :
           SaveManifest(augment(Defaults(opts, uuid), clone(manifest)),
                        Populating(opts))

\* what manifest.json holds once the write w has completed
Land(w) == w.data

\* a pending fs.writeFile completes; writes complete in any order
WriteDone ==
    /\ \E w \in pending :
        /\ disk' = Land(w)
        /\ pending' = pending \ {w}
        /\ landed' = landed \cup {w.id}
        /\ lastLanded' = w
    /\ UNCHANGED <<manifest, reading, issued, loadReport, lastOp>>
    /\ UNCHANGED <<scriptVars, importVars>>

ManifestNext ==
    \/ LoadSync
    \/ LoadAsync
    \/ ReadManifestCallback
    \/ SaveManifestCall
    \/ SaveManifestSync
    \/ PopulateManifest
    \/ WriteDone

SpecManifest == ManifestInit /\ [][ManifestNext]_vars

(***************************************************************************)
(* Properties of the manifest (SpecManifest)                               *)
(***************************************************************************)
\* C6: a load, by either path, of a manifest.json whose appID is missing, not
\* a string or empty reports success with a non-empty string appID in memory
\* and the same appID already in manifest.json.
C6_SelfHealOnEveryLoadPath ==
    (loadReport.ok /\ loadReport.healed) =>
        /\ loadReport.memAppID.type = "string"
        /\ loadReport.memAppID # Str("")
        /\ loadReport.diskAppID = loadReport.memAppID

\* C7: every key the manifest has before populateManifest(options) keeps its
\* value; defaults and option values only fill the keys that were absent.
C7_ExistingKeysKept ==
    lastOp.op = "populate" =>
        /\ \A k \in DOMAIN lastOp.before :
               k \in DOMAIN manifest /\ manifest[k] = lastOp.before[k]
        /\ \A k \in DOMAIN manifest \ DOMAIN lastOp.before :
               manifest[k] = Defaults(lastOp.opts, manifest["appID"])[k]

\* populateManifest({title: 'Y', shortName: 't'}) has run on a manifest with
\* title 'X' and no studio block: the title is kept, the studio block filled in
C7_Witness ==
    /\ lastOp.op = "populate"
    /\ lastOp.opts = [title |-> Str("Y"), shortName |-> Str("t")]
    /\ Get(lastOp.before, "title") = Str("X")
    /\ Get(lastOp.before, "studio") = Absent
    /\ manifest["title"] = Str("X")
    /\ manifest["studio"] = DefaultStudio

\* once some write has completed and nothing wrote synchronously after it,
\* manifest.json holds the data of the write that completed last
LastCompletedOnDisk == lastLanded.id # 0 => disk = lastLanded.data

\* C9: in every state between a saveManifest(data) call and the completion
\* of its write the in-memory manifest equals data, also when a second
\* saveManifest or populateManifest is issued before the write completes; and
\* once the writes of two racing calls have completed, manifest.json holds
\* the data of the one that completed last.
C9_MemoryEqualsEveryPendingWrite ==
    /\ lastOp.op \in {"save", "populate"} => \A w \in pending : manifest = w.data
    /\ LastCompletedOnDisk

\* C9 as amended: from the saveManifest(data) call until another call replaces
\* the in-memory manifest, the in-memory manifest equals data although the
\* write is still pending; and once the writes of two racing calls have
\* completed, manifest.json holds the data of the one that completed last.
C9_MemoryEqualsLatestPendingWrite ==
    /\ \A w \in pending :
           (lastOp.op \in {"save", "populate"} /\ lastOp.id = w.id) => manifest = w.data
    /\ LastCompletedOnDisk

\* two saveManifest calls raced and the one issued first completed last: the
\* file holds the first call's data, memory the second's
C9_Witness ==
    /\ pending = {} /\ landed = {1, 2}
    /\ lastLanded.id = 1
    /\ lastOp.op = "save" /\ lastOp.id = 2
    /\ disk = lastLanded.data
    /\ manifest # disk

====
